---- MODULE Spec2Model ----
(***************************************************************************)
(* The worker registry of fastchat/serve/controller.py.                    *)
(*                                                                         *)
(* Two threads of execution share Controller.worker_info:                  *)
(*   - the event-loop thread, which runs the FastAPI handlers one at a     *)
(*     time (the handlers are "async def" and call the synchronous         *)
(*     Controller methods without awaiting inside them), and               *)
(*   - the daemon thread heart_beat_controller, which sleeps and sweeps.   *)
(* The code takes no lock, so the sweep thread may run between any two     *)
(* accesses a handler makes to worker_info, and the other way round.  Each *)
(* action below is one access to worker_info (or one blocking call), named *)
(* after the source line it models.                                        *)
(*                                                                         *)
(* Two further specifications model the stream translation of a worker's   *)
(* generation stream: SpecGateway, the Server-Sent-Events response of      *)
(* fastchat/serve/openai_api_server.py, and SpecChat, the chat page of     *)
(* fastchat/serve/gradio_web_server.py.  Both see the worker as a source   *)
(* of chunks that may end, report an error, or break.  SpecSession adds    *)
(* the regenerate and clear buttons of the chat page, and SpecApi the      *)
(* request handling of the gateway: the key check, the lookup of a worker, *)
(* the non-streaming completion and the model listing.                     *)
(***************************************************************************)
EXTENDS Integers, Sequences, FiniteSets, TLC

\* ------------------------------------------------------------------ bounds
\* The clock stops at MaxTime; heartbeats report a queue length in 0..MaxQueue.
MaxTime == 4
MaxQueue == 1

\* fastchat.constants.CONTROLLER_HEART_BEAT_EXPIRATION, in ticks of the clock
\* of this model: the sleep of the sweep thread and the expiration window.
CONTROLLER_HEART_BEAT_EXPIRATION == 2

\* ------------------------------------------------------------------ values
Endpoints == {"http://a", "http://b"}
ModelNames == {"m1", "m2"}
None == "None"

\* Record constructors list their fields in the order the field names first
\* occur in this module, which is the order TLC keeps them in.

\* What a worker answers to /worker_get_status.
Statuses ==
    { [model_names |-> <<"m1">>, speed |-> 1, queue_length |-> 0],
      [model_names |-> <<"m2">>, speed |-> 2, queue_length |-> 1] }

\* worker_status=None: no status came with the request, or the probe failed.
NoStatus == [none |-> TRUE]

\* What Controller methods return, as the handler passes it on: True, False,
\* None, an address, or the exception the method raised.
True == "True"
False == "False"

\* The empty dict.
EmptyDict == [k \in {} |-> None]

VARIABLES
    worker_info,   \* Controller.worker_info: endpoint -> WorkerInfo
    now,           \* time.time()
    req,           \* the request the event loop is serving, with its locals
    hpc,           \* where the handler stands in the Controller method
    ret,           \* what the last Controller method returned (or raised)
    seen,          \* history: worker_info as the method's first read saw it
    wtime,         \* history: time.time() of the method's write to a record, -1 before it
    spc,           \* where the sweep thread stands
    wake,          \* when the sweep thread's sleep ends
    to_delete,     \* remove_stale_workers_by_expiration's to_delete
    gpc,           \* where the gateway's generate() of a streamed completion is
    out,           \* the events generate() has yielded to the client
    data,          \* generate()'s loop variable: the last chunk it pulled
    conn,          \* the streaming request to the worker: requests.post(stream=True)
    pulled,        \* the chunks read from the worker's stream so far
    cpc,           \* where the chat front end's bot_response_fn is
    messages,      \* state_obj.conv.messages
    skip_next,     \* state_obj.skip_next
    full_resp_text,\* bot_response_fn's full_resp_text
    data_chunk,    \* bot_response_fn's loop variable
    ui,            \* the updates bot_response_fn has yielded to the page
    input_textbox, \* the text handed to the event that started the run
    apc,           \* where the gateway's request handler is
    areq,          \* the request the gateway is serving
    aresp,         \* the gateway's HTTP response to it
    api_key,       \* openai_api_server.api_key
    calls,         \* the requests the handler has sent to controller and worker
    worker_addr,   \* get_worker_address's worker_addr
    result,        \* create_chat_completion's result = response.json()
    models_json    \* list_models' models = response.json()

\* The registry and its two threads, without the clock.
registry_vars == <<worker_info, req, hpc, ret, seen, wtime, spc, wake, to_delete>>

\* The gateway's streamed completion and the chat front end's generation.
gateway_vars == <<gpc, out, data>>
worker_stream_vars == <<conn, pulled>>
chat_vars == <<cpc, messages, skip_next, full_resp_text, data_chunk, ui,
               input_textbox>>
api_vars == <<apc, areq, aresp, api_key, calls, worker_addr, result,
              models_json>>
front_vars == <<gateway_vars, worker_stream_vars, chat_vars, api_vars>>

vars == <<worker_info, now, req, hpc, ret, seen, wtime, spc, wake, to_delete,
          gpc, out, data, conn, pulled,
          cpc, messages, skip_next, full_resp_text, data_chunk, ui,
          input_textbox,
          apc, areq, aresp, api_key, calls, worker_addr, result, models_json>>

\* ----------------------------------------------------------------- helpers
Range(s) == { s[i] : i \in DOMAIN s }

\* d[k] = v on a dict.
Put(d, k, v) == [x \in (DOMAIN d) \cup {k} |-> IF x = k THEN v ELSE d[x]]

\* Mutant of Del: the record stays.
Del_keeps(d, k) == d

\* del d[k] on a dict that has k.
Del(d, k) == [x \in (DOMAIN d) \ {k} |-> d[x]]

\* list(d.keys())[0] on a non-empty dict.
FirstKey(d) == CHOOSE k \in DOMAIN d : TRUE

WorkerInfo(model_names, speed, queue_length, check_heart_beat, last_heart_beat, multimodal) ==
    [ model_names      |-> model_names,
      speed            |-> speed,
      queue_length     |-> queue_length,
      check_heart_beat |-> check_heart_beat,
      last_heart_beat  |-> last_heart_beat,
      multimodal       |-> multimodal ]

\* The request the event loop is serving: the method called, its arguments
\* and its locals (probe: whether get_worker_status_direct was called, and
\* how it ended).
Request(queue_length, check_heart_beat, multimodal, op, worker_name, worker_status, model, probe) ==
    [ queue_length     |-> queue_length,
      check_heart_beat |-> check_heart_beat,
      multimodal       |-> multimodal,
      op               |-> op,
      worker_name      |-> worker_name,
      worker_status    |-> worker_status,
      model            |-> model,
      probe            |-> probe ]

NoRequest == Request(0, FALSE, FALSE, "none", None, NoStatus, None, "none")

\* not worker_status: None (and an empty dict) count as missing.
Missing(worker_status) == worker_status = NoStatus

\* The record register_worker stores (lines 77-84 and 100-107).
NewRecord(worker_status, check_heart_beat, t, multimodal) ==
    WorkerInfo(worker_status.model_names, worker_status.speed,
               worker_status.queue_length, check_heart_beat, t, multimodal)

\* A method ends: it returns r (or raises r) and the event loop is free again.
Done(r) ==
    /\ hpc' = "done"
    /\ ret' = r

\* ------------------------------------------------ the worker's stream
\* A stream carries at most MaxChunks chunks before it ends or breaks.
MaxChunks == 3

\* fastchat.constants.ErrorCode is imported, not defined, by these sources;
\* the code only tests the code of a chunk against zero.
INTERNAL_ERROR == 50001
CONNECTION_ERROR == 50003

\* Text is a sequence of pieces and + on strings is \o: "Hi there" is
\* <<"Hi", " there">>.
Texts == {<<>>, <<"Hi">>, <<" there">>, <<"Hi", " there">>}

\* A message the worker sends with a nonzero error code.
WorkerErrorText == <<"CUDA out of memory">>

\* The events of the gateway: ChatCompletionStreamResponse with one
\* ChatCompletionResponseStreamChoice (lines 162-171, 182-191, 199-208).
ChatCompletionStreamResponse(id, delta, finish_reason) ==
    [id |-> id, delta |-> delta, finish_reason |-> finish_reason]

\* DeltaMessage(role="assistant"), DeltaMessage(content=...), DeltaMessage()
DeltaRole == [role |-> "assistant"]
DeltaContent(content) == [content |-> content]
DeltaEmpty == [unset |-> TRUE]

\* "data: [DONE]\n\n" (line 210)
Sentinel == [sentinel |-> "[DONE]"]

\* One decoded line of the worker's stream: {text, error_code, finish_reason?}
Chunk(finish_reason, text, error_code) ==
    [finish_reason |-> finish_reason, text |-> text, error_code |-> error_code]

NoChunk == Chunk(None, <<>>, 0)

\* What the worker may send as its next chunk: text with error code 0 and
\* perhaps a finish reason, or an error message with a nonzero code.
WorkerChunks ==
    { Chunk(f, t, 0) : f \in {None, "stop"}, t \in Texts }
        \cup { Chunk(None, WorkerErrorText, INTERNAL_ERROR) }

\* generate_stream's own chunk for a requests.RequestException (line 93).
GatewayErrorChunk ==
    Chunk(None, <<"Error occurred during generation">>, INTERNAL_ERROR)

\* ------------------------------------------------------ the chat page
\* A conversation holds at most MaxTurns user messages.
MaxTurns == 1

\* The in-progress marker of lines 226 and 245, a block cursor.
Marker == "<cursor>"

\* The content of an assistant message that is still pending (None).
NoneText == <<None>>

\* What the user may submit: nothing, blanks, or a message, perhaps with a
\* blank after it.
UserTexts == {<<>>, <<" ">>, <<"hello">>, <<"hello", " ">>}

\* text.strip(): the text without the blanks at its two ends
RECURSIVE strip(_)
strip(t) ==
    IF t = <<>> THEN <<>>
    ELSE IF t[1] = " " THEN strip(Tail(t))
    ELSE IF t[Len(t)] = " " THEN strip(SubSeq(t, 1, Len(t) - 1))
    ELSE t

\* conv.append_message(role, content): one entry of conv.messages
Message(role, content) == [role |-> role, content |-> content]

\* One yield of bot_response_fn: what the page shows for the last message,
\* and whether the yield gives the text box and the button back
\* (enable_text, enable_btn), which only the last yield of a run does.
Update(content, final) == [content |-> content, final |-> final]

\* model_worker_stream_iter_fn's own chunk for a RequestException (line 186).
ChatErrorChunk ==
    Chunk(None, <<"SERVER_ERROR_MSG", "(Worker Connection Error)">>,
          CONNECTION_ERROR)

\* ------------------------------------------------- the gateway's requests
\* --api-key: not given, or a key.
ApiKeys == {None, "secret"}

\* The bearer token of a request: none, the key, or something else.
Credentials == {None, "secret", "wrong"}

\* A request to /v1/chat/completions or /v1/models.
ApiRequest(op, stream, credentials) ==
    [op |-> op, stream |-> stream, credentials |-> credentials]

\* What the client gets: a status code, and the text of the answer or of
\* the HTTPException's detail.
Response(status_code, body) == [status_code |-> status_code, body |-> body]

NoResponse == Response(0, <<>>)

\* A local that has not been assigned.
Unassigned == [unassigned |-> TRUE]

\* What /worker_generate may answer: a text, or an error code with or
\* without a text.
WorkerResults ==
    { Chunk(f, t, e) : f \in {None, "stop"}, t \in Texts \cup {WorkerErrorText},
                       e \in {0, INTERNAL_ERROR} }

\* What the controller's /list_models answers: {"models": [...]} with the
\* model names of the held worker, or with [] (controller.py 139-143, 214-218).
ListModelsReplies ==
    { [models |-> names] : names \in {<<>>, <<"m1">>, <<"m1", "m2">>} }

\* for x in d: the keys of a dict, in order
RECURSIVE Keys(_)
Keys(S) ==
    IF S = {} THEN <<>>
    ELSE LET k == CHOOSE x \in S : TRUE IN <<k>> \o Keys(S \ {k})

Init ==
    /\ worker_info = EmptyDict
    /\ now = 0
    /\ req = NoRequest
    /\ hpc = "done"
    /\ ret = None
    /\ seen = EmptyDict
    /\ wtime = -1
    /\ spc = "sleep"
    /\ wake = CONTROLLER_HEART_BEAT_EXPIRATION
    /\ to_delete = {}
    /\ gpc = "idle"
    /\ out = <<>>
    /\ data = NoChunk
    /\ conn = "none"
    /\ pulled = 0
    /\ cpc = "idle"
    /\ messages = <<>>
    /\ skip_next = FALSE
    /\ full_resp_text = <<>>
    /\ data_chunk = NoChunk
    /\ ui = <<>>
    /\ input_textbox = <<>>
    /\ apc = "start"
    /\ areq = ApiRequest("none", FALSE, None)
    /\ aresp = NoResponse
    /\ api_key = None
    /\ calls = <<>>
    /\ worker_addr = None
    /\ result = Unassigned
    /\ models_json = Unassigned

\* ------------------------------------------------------------- the clock
Tick ==
    /\ now < MaxTime
    /\ now' = now + 1
    /\ UNCHANGED <<worker_info, req, hpc, ret, seen, wtime, spc, wake, to_delete,
                   front_vars>>

\* ------------------------------------------------- the FastAPI endpoints
\* A handler starts when the event loop is free.
Begin(r, pc) ==
    /\ hpc = "done"
    /\ req' = r
    /\ hpc' = pc
    /\ ret' = None
    /\ seen' = EmptyDict
    /\ wtime' = -1
    /\ UNCHANGED <<worker_info, now, spc, wake, to_delete, front_vars>>

app_register_worker ==
    \E worker_name \in Endpoints, check_heart_beat \in BOOLEAN,
       worker_status \in Statuses \cup {NoStatus}, multimodal \in BOOLEAN :
        Begin(Request(0, check_heart_beat, multimodal, "register_worker",
                      worker_name, worker_status, None, "none"), "reg_69")

app_receive_heart_beat ==
    \E worker_name \in Endpoints, queue_length \in 0..MaxQueue :
        Begin(Request(queue_length, FALSE, FALSE, "receive_heart_beat",
                      worker_name, NoStatus, None, "none"), "hb_170")

app_get_worker_address ==
    \E model \in ModelNames :
        Begin(Request(0, FALSE, FALSE, "get_worker_address", None, NoStatus,
                      model, "none"), "gwa_160")

app_refresh_all_workers ==
    Begin(Request(0, FALSE, FALSE, "refresh_all_workers", None, NoStatus,
                  None, "none"), "rf_128")

\* A step of the handler that leaves the registry and the sweep thread alone.
HandlerLocal == UNCHANGED <<worker_info, now, wtime, spc, wake, to_delete,
                            front_vars>>

\* A step of the handler leaves the clock and the sweep thread alone.
HandlerStepOnly == UNCHANGED <<now, spc, wake, to_delete, front_vars>>

\* ------------------------------------------------------- register_worker
\* Mutant of NotRegistered: any endpoint is taken for the registered one.
NotRegistered_never(worker_name, d) == FALSE

\* line 89: worker_name not in self.worker_info
NotRegistered(worker_name, d) == worker_name \notin DOMAIN d

\* Mutant of NoWorker: the registry is always taken to be empty.
NoWorker_always(d) == TRUE

\* line 69: not self.worker_info
NoWorker(d) == DOMAIN d = {}

\* line 69: if not self.worker_info
reg_69 ==
    /\ hpc = "reg_69"
    /\ seen' = worker_info
    /\ hpc' = IF NoWorker(worker_info)
              THEN (IF Missing(req.worker_status) THEN "reg_72" ELSE "reg_77")
              ELSE "reg_89"
    /\ UNCHANGED <<req, ret>>
    /\ HandlerLocal

\* Mutant of Probe: a failed probe drops the record of the endpoint before
\* the registration is refused.
Probe_drops(next) ==
    /\ \E r \in Statuses \cup {NoStatus} :
        IF Missing(r)
        THEN /\ req' = [req EXCEPT !.probe = "fail"]
             /\ worker_info' = Del(worker_info, req.worker_name)
             /\ Done(False)
        ELSE /\ req' = [req EXCEPT !.probe = "ok", !.worker_status = r]
             /\ hpc' = next
             /\ ret' = ret
             /\ UNCHANGED worker_info
    /\ UNCHANGED wtime

\* get_worker_status_direct, lines 112-120: the worker's status, or None when
\* the request fails; then lines 73-75 (97-99): no status, no registration.
Probe(next) ==
    /\ \E r \in Statuses \cup {NoStatus} :
        IF Missing(r)
        THEN /\ req' = [req EXCEPT !.probe = "fail"]
             /\ Done(False)
        ELSE /\ req' = [req EXCEPT !.probe = "ok", !.worker_status = r]
             /\ hpc' = next
             /\ ret' = ret
    /\ UNCHANGED <<worker_info, wtime>>

reg_72 ==
    /\ hpc = "reg_72"
    /\ Probe("reg_77")
    /\ UNCHANGED seen
    /\ HandlerStepOnly

\* lines 77-84 and 100-107: self.worker_info[worker_name] = WorkerInfo(...)
Store(next) ==
    /\ worker_info' = Put(worker_info, req.worker_name,
                          NewRecord(req.worker_status, req.check_heart_beat,
                                    now, req.multimodal))
    /\ wtime' = now
    /\ hpc' = next
    /\ UNCHANGED <<now, req, ret, seen, spc, wake, to_delete, front_vars>>

reg_77 ==
    /\ hpc = "reg_77"
    /\ Store("reg_85")

\* lines 85-86: logger.info(...); return True
reg_85 ==
    /\ hpc = "reg_85"
    /\ Done(True)
    /\ UNCHANGED <<req, seen>>
    /\ HandlerLocal

\* lines 89-95: another endpoint is refused, the same one re-registers.
reg_89 ==
    /\ hpc = "reg_89"
    /\ IF NotRegistered(req.worker_name, worker_info)
       THEN Done(False)
       ELSE /\ hpc' = IF Missing(req.worker_status) THEN "reg_96" ELSE "reg_100"
            /\ ret' = ret
    /\ UNCHANGED <<req, seen>>
    /\ HandlerLocal

reg_96 ==
    /\ hpc = "reg_96"
    /\ Probe("reg_100")
    /\ UNCHANGED seen
    /\ HandlerStepOnly

reg_100 ==
    /\ hpc = "reg_100"
    /\ Store("reg_108")

\* lines 108-109: logger.info(...); return True
reg_108 ==
    /\ hpc = "reg_108"
    /\ Done(True)
    /\ UNCHANGED <<req, seen>>
    /\ HandlerLocal

\* ---------------------------------------------------- receive_heart_beat
\* line 170: if worker_name in self.worker_info
hb_170 ==
    /\ hpc = "hb_170"
    /\ seen' = worker_info
    /\ IF req.worker_name \in DOMAIN worker_info
       THEN /\ hpc' = "hb_171"
            /\ ret' = ret
       ELSE Done(False)
    /\ UNCHANGED req
    /\ HandlerLocal

\* line 171: self.worker_info[worker_name].queue_length = queue_length
hb_171 ==
    /\ hpc = "hb_171"
    /\ IF req.worker_name \in DOMAIN worker_info
       THEN /\ worker_info' = [worker_info EXCEPT
                                 ![req.worker_name].queue_length = req.queue_length]
            /\ hpc' = "hb_172"
            /\ ret' = ret
       ELSE /\ Done("KeyError")
            /\ UNCHANGED worker_info
    /\ UNCHANGED <<now, req, seen, wtime, spc, wake, to_delete, front_vars>>

\* lines 172-173: self.worker_info[worker_name].last_heart_beat = time.time()
hb_172 ==
    /\ hpc = "hb_172"
    /\ IF req.worker_name \in DOMAIN worker_info
       THEN /\ worker_info' = [worker_info EXCEPT
                                 ![req.worker_name].last_heart_beat = now]
            /\ wtime' = now
            /\ Done(True)
       ELSE /\ Done("KeyError")
            /\ UNCHANGED <<worker_info, wtime>>
    /\ UNCHANGED <<now, req, seen, spc, wake, to_delete, front_vars>>

\* ---------------------------------------------------- get_worker_address
\* line 160: if self.worker_info
gwa_160 ==
    /\ hpc = "gwa_160"
    /\ seen' = worker_info
    /\ IF DOMAIN worker_info # {}
       THEN /\ hpc' = "gwa_161"
            /\ ret' = ret
       ELSE Done("")
    /\ UNCHANGED req
    /\ HandlerLocal

\* line 161: worker_name = list(self.worker_info.keys())[0]
gwa_161 ==
    /\ hpc = "gwa_161"
    /\ IF DOMAIN worker_info # {}
       THEN /\ req' = [req EXCEPT !.worker_name = FirstKey(worker_info)]
            /\ hpc' = "gwa_162"
            /\ ret' = ret
       ELSE /\ Done("IndexError")
            /\ UNCHANGED req
    /\ UNCHANGED seen
    /\ HandlerLocal

\* lines 163-167: the endpoint if the worker lists the model, "" otherwise
Address(worker_name, worker_data, model_name) ==
    IF model_name \in Range(worker_data.model_names) THEN worker_name ELSE ""

\* line 162: worker_data = self.worker_info[worker_name]
gwa_162 ==
    /\ hpc = "gwa_162"
    /\ IF req.worker_name \in DOMAIN worker_info
       THEN Done(Address(req.worker_name, worker_info[req.worker_name], req.model))
       ELSE Done("KeyError")
    /\ UNCHANGED <<req, seen>>
    /\ HandlerLocal

\* ----------------------------------------------------------- remove_worker
\* line 123: if worker_name in self.worker_info
Registered(worker_name, d) == worker_name \in DOMAIN d

\* line 124: del self.worker_info[worker_name]; a missing key raises KeyError
CanDelete(worker_name, d) == worker_name \in DOMAIN d

\* --------------------------------------------------- refresh_all_workers
\* line 128: if self.worker_info
rf_128 ==
    /\ hpc = "rf_128"
    /\ seen' = worker_info
    /\ IF DOMAIN worker_info # {}
       THEN /\ hpc' = "rf_129"
            /\ ret' = ret
       ELSE Done(None)
    /\ UNCHANGED req
    /\ HandlerLocal

\* line 129: worker_name = list(self.worker_info.keys())[0]
rf_129 ==
    /\ hpc = "rf_129"
    /\ IF DOMAIN worker_info # {}
       THEN /\ req' = [req EXCEPT !.worker_name = FirstKey(worker_info)]
            /\ hpc' = "rf_131"
            /\ ret' = ret
       ELSE /\ Done("IndexError")
            /\ UNCHANGED req
    /\ UNCHANGED seen
    /\ HandlerLocal

\* line 131: if not self.get_worker_status_direct(worker_name)
rf_131 ==
    /\ hpc = "rf_131"
    /\ \E r \in Statuses \cup {NoStatus} :
        IF Missing(r)
        THEN /\ req' = [req EXCEPT !.probe = "fail"]
             /\ hpc' = "rf_123"
             /\ ret' = ret
        ELSE /\ req' = [req EXCEPT !.probe = "ok"]
             /\ Done(None)
    /\ UNCHANGED seen
    /\ HandlerLocal

\* line 133 -> remove_worker, line 123
rf_123 ==
    /\ hpc = "rf_123"
    /\ IF Registered(req.worker_name, worker_info)
       THEN /\ hpc' = "rf_124"
            /\ ret' = ret
       ELSE Done(None)
    /\ UNCHANGED <<req, seen>>
    /\ HandlerLocal

\* remove_worker, line 124
rf_124 ==
    /\ hpc = "rf_124"
    /\ IF CanDelete(req.worker_name, worker_info)
       THEN /\ worker_info' = Del(worker_info, req.worker_name)
            /\ Done(None)
       ELSE /\ Done("KeyError")
            /\ UNCHANGED worker_info
    /\ UNCHANGED <<now, req, seen, wtime, spc, wake, to_delete, front_vars>>

\* ------------------------------------------------------- the sweep thread
\* line 183: w_info.check_heart_beat and w_info.last_heart_beat < expire
IsStale(w_info, expire) ==
    w_info.check_heart_beat /\ w_info.last_heart_beat < expire

\* line 179: expire = time.time() - CONTROLLER_HEART_BEAT_EXPIRATION
Expire(t) == t - CONTROLLER_HEART_BEAT_EXPIRATION

\* lines 180-184: the endpoints of the snapshot that are stale
StaleWorkers(d, expire) == { k \in DOMAIN d : IsStale(d[k], expire) }

\* heart_beat_controller, line 48: time.sleep(CONTROLLER_HEART_BEAT_EXPIRATION)
Sleep ==
    /\ spc' = "sleep"
    /\ wake' = now + CONTROLLER_HEART_BEAT_EXPIRATION
    /\ to_delete' = {}

SweepLocal == UNCHANGED <<now, req, hpc, ret, seen, wtime, front_vars>>

\* lines 48-50 and 179-184: the sleep ends, the sweep takes its snapshot of
\* worker_info and collects the stale endpoints.
sweep_179 ==
    /\ spc = "sleep"
    /\ now >= wake
    /\ LET stale == StaleWorkers(worker_info, Expire(now))
       IN  IF stale = {}
           THEN Sleep
           ELSE /\ to_delete' = stale
                /\ spc' = "sweep_123"
                /\ wake' = wake
    /\ UNCHANGED worker_info
    /\ SweepLocal

\* lines 186-188 -> remove_worker, line 123
sweep_123 ==
    /\ spc = "sweep_123"
    /\ \E worker_name \in to_delete :
        IF Registered(worker_name, worker_info)
        THEN /\ spc' = "sweep_124"
             /\ UNCHANGED <<wake, to_delete>>
        ELSE IF to_delete = {worker_name}
             THEN Sleep
             ELSE /\ to_delete' = to_delete \ {worker_name}
                  /\ UNCHANGED <<spc, wake>>
    /\ UNCHANGED worker_info
    /\ SweepLocal

\* remove_worker, line 124; an uncaught KeyError ends the thread
sweep_124 ==
    /\ spc = "sweep_124"
    /\ \E worker_name \in to_delete :
        IF CanDelete(worker_name, worker_info)
        THEN /\ worker_info' = Del(worker_info, worker_name)
             /\ IF to_delete = {worker_name}
                THEN Sleep
                ELSE /\ to_delete' = to_delete \ {worker_name}
                     /\ spc' = "sweep_123"
                     /\ wake' = wake
        ELSE /\ spc' = "dead"
             /\ UNCHANGED <<worker_info, wake, to_delete>>
    /\ SweepLocal

\* ------------------------------------------------------ the specifications
Handler ==
    \/ app_register_worker
    \/ app_receive_heart_beat
    \/ app_get_worker_address
    \/ app_refresh_all_workers
    \/ reg_69
    \/ reg_72
    \/ reg_77
    \/ reg_85
    \/ reg_89
    \/ reg_96
    \/ reg_100
    \/ reg_108
    \/ hb_170
    \/ hb_171
    \/ hb_172
    \/ gwa_160
    \/ gwa_161
    \/ gwa_162
    \/ rf_128
    \/ rf_129
    \/ rf_131
    \/ rf_123
    \/ rf_124

Sweep ==
    \/ sweep_179
    \/ sweep_123
    \/ sweep_124

Next == Tick \/ Handler \/ Sweep

Spec == Init /\ [][Next]_vars

\* The sweep thread on schedule: its sleep ends when it is due and a sweep
\* takes no time, so sweeps are exactly one expiration window apart.
SweepOnTime == ~(spc = "sleep" /\ now >= wake) /\ spc \in {"sleep", "dead"}

TickOnTime == SweepOnTime /\ Tick

NextOnTime == TickOnTime \/ Handler \/ Sweep

SpecOnTime == Init /\ [][NextOnTime]_vars

\* ======================================= the gateway's streamed completion
\* create_chat_completion with request.stream, openai_api_server.py 160-212.
\* generate() is a generator: each action below runs it from one yield to
\* the next.  The registry is not part of it.
GatewayLocal == UNCHANGED <<now, registry_vars, chat_vars, api_vars>>

\* The event a yield sends carries id=f"chatcmpl-{int(time.time())}",
\* computed when the event is built (lines 168, 188, 205).
Emit(delta, finish_reason) ==
    out' = Append(out, ChatCompletionStreamResponse(now, delta, finish_reason))

\* line 212: StreamingResponse(generate()) starts a new generator.
StartGenerate ==
    /\ gpc \in {"idle", "end", "cancelled"}
    /\ gpc' = "g_162"
    /\ out' = <<>>
    /\ data' = NoChunk
    /\ conn' = "none"
    /\ pulled' = 0

\* A streamed completion that has passed the key check and has its worker.
create_chat_completion ==
    /\ StartGenerate
    /\ GatewayLocal

\* lines 162-172: the role announcement
g_162 ==
    /\ gpc = "g_162"
    /\ Emit(DeltaRole, None)
    /\ gpc' = "g_175"
    /\ UNCHANGED <<data, conn, pulled>>
    /\ GatewayLocal

\* Mutant of LoopBody: the text of a failing chunk is sent as content before
\* the loop is left.
LoopBody_sends_error(d) ==
    /\ Emit(DeltaContent(d.text), None)
    /\ gpc' = IF d.error_code # 0 \/ d.finish_reason # None
              THEN "g_198" ELSE "g_175"

\* lines 176-194, the body of the loop for the chunk d: an error code breaks
\* the loop; otherwise the chunk's text is sent as the delta's content, and a
\* finish reason breaks the loop after the yield.
LoopBody(d) ==
    IF d.error_code # 0
    THEN /\ gpc' = "g_198"
         /\ out' = out
    ELSE /\ Emit(DeltaContent(d.text), None)
         /\ gpc' = IF d.finish_reason # None THEN "g_198" ELSE "g_175"

\* generate_stream, lines 79-85: the first pull posts the request; a
\* RequestException (refused, timed out, HTTP error status) is caught at
\* line 91 and becomes the generator's only chunk.
gs_79 ==
    /\ gpc = "g_175"
    /\ conn = "none"
    /\ \/ /\ conn' = "open"
          /\ UNCHANGED <<gpc, out, data>>
       \/ /\ conn' = "failed"
          /\ data' = GatewayErrorChunk
          /\ LoopBody(GatewayErrorChunk)
    /\ UNCHANGED pulled
    /\ GatewayLocal

\* line 175 with generate_stream's lines 87-93: the next chunk of the
\* worker, the end of its stream, or a break of the connection (a
\* RequestException of iter_lines, caught at line 91).  Empty lines are
\* skipped by line 88 and are not chunks.
g_175 ==
    /\ gpc = "g_175"
    /\ conn = "open"
    /\ \/ /\ pulled < MaxChunks
          /\ \E c \in WorkerChunks :
                /\ data' = c
                /\ LoopBody(c)
          /\ pulled' = pulled + 1
          /\ UNCHANGED conn
       \/ /\ conn' = "closed"
          /\ gpc' = "g_198"
          /\ UNCHANGED <<out, data, pulled>>
       \/ /\ conn' = "broken"
          /\ data' = GatewayErrorChunk
          /\ LoopBody(GatewayErrorChunk)
          /\ UNCHANGED pulled
    /\ GatewayLocal

\* Mutant of g_198: the generator goes to the sentinel without a final chunk.
g_198_skipped ==
    /\ gpc = "g_198"
    /\ gpc' = "g_210"
    /\ UNCHANGED <<out, data, conn, pulled>>
    /\ GatewayLocal

\* lines 198-209: the final chunk
g_198 ==
    /\ gpc = "g_198"
    /\ Emit(DeltaEmpty, "stop")
    /\ gpc' = "g_210"
    /\ UNCHANGED <<data, conn, pulled>>
    /\ GatewayLocal

\* line 210: the sentinel; the generator ends.
g_210 ==
    /\ gpc = "g_210"
    /\ out' = Append(out, Sentinel)
    /\ gpc' = "end"
    /\ UNCHANGED <<data, conn, pulled>>
    /\ GatewayLocal

\* The client goes away while generate() is suspended at a yield: the
\* server stops iterating the generator.  generate_stream has no finally
\* and no response.close() (lines 78-93) and generate() does not close the
\* generator it iterates (line 175), so the streaming request is closed
\* only if the interpreter finalises the abandoned generator and its
\* response; the code does not decide which.
client_disconnect ==
    /\ gpc \in {"g_175", "g_198", "g_210"}
    /\ gpc' = "cancelled"
    /\ \/ UNCHANGED conn
       \/ conn = "open" /\ conn' = "closed"
    /\ UNCHANGED <<out, data, pulled>>
    /\ GatewayLocal

GatewayNext ==
    \/ Tick
    \/ client_disconnect
    \/ create_chat_completion
    \/ g_162
    \/ gs_79
    \/ g_175
    \/ g_198
    \/ g_210

SpecGateway == Init /\ [][GatewayNext]_vars

\* ============================================== the gateway's handlers
\* openai_api_server.py: create_app, verify_api_key, get_worker_address,
\* list_models and create_chat_completion.  The controller and the worker
\* are seen through their answers.
ApiLocal == UNCHANGED <<now, registry_vars, chat_vars>>

StreamLocal == UNCHANGED <<gateway_vars, worker_stream_vars>>

\* raise HTTPException(status_code, detail), or return: the handler is over.
Respond(status_code, body) ==
    /\ aresp' = Response(status_code, body)
    /\ apc' = "done"

\* lines 257-261: the globals are set once, before the server runs.
create_app ==
    /\ apc = "start"
    /\ \E k \in ApiKeys : api_key' = k
    /\ apc' = "done"
    /\ UNCHANGED <<areq, aresp, calls, worker_addr, result, models_json>>
    /\ StreamLocal
    /\ ApiLocal

\* A request arrives; FastAPI resolves Depends(verify_api_key) first.
Arrive(r) ==
    /\ apc = "done"
    /\ gpc \in {"idle", "end", "cancelled"}
    /\ areq' = r
    /\ apc' = "a_51"
    /\ aresp' = NoResponse
    /\ calls' = <<>>
    /\ worker_addr' = None
    /\ result' = Unassigned
    /\ models_json' = Unassigned
    /\ UNCHANGED api_key
    /\ StreamLocal
    /\ ApiLocal

\* POST /v1/chat/completions (line 119)
v1_chat_completions ==
    \E stream \in BOOLEAN, credentials \in Credentials :
        Arrive(ApiRequest("create_chat_completion", stream, credentials))

\* GET /v1/models (line 95)
v1_models ==
    \E credentials \in Credentials :
        Arrive(ApiRequest("list_models", FALSE, credentials))

\* Mutant of a_51: only a token that is present is compared with the key.
a_51_missing_passes ==
    /\ apc = "a_51"
    /\ IF api_key # None /\ areq.credentials # None
            /\ areq.credentials # api_key
       THEN Respond(401, <<"Invalid API key">>)
       ELSE /\ apc' = IF areq.op = "list_models" THEN "a_99" ELSE "a_127"
            /\ UNCHANGED aresp
    /\ UNCHANGED <<areq, api_key, calls, worker_addr, result, models_json>>
    /\ StreamLocal
    /\ ApiLocal

\* verify_api_key, lines 51-54
a_51 ==
    /\ apc = "a_51"
    /\ IF api_key # None /\ (areq.credentials = None
                             \/ areq.credentials # api_key)
       THEN Respond(401, <<"Invalid API key">>)
       ELSE /\ apc' = IF areq.op = "list_models" THEN "a_99" ELSE "a_127"
            /\ UNCHANGED aresp
    /\ UNCHANGED <<areq, api_key, calls, worker_addr, result, models_json>>
    /\ StreamLocal
    /\ ApiLocal

\* line 127 with get_worker_address, lines 56-71: the controller cannot be
\* reached (503), or answers with an empty address (the HTTPException of
\* line 67 is not a RequestException and passes line 69), or with an address.
a_127 ==
    /\ apc = "a_127"
    /\ calls' = Append(calls, "controller/get_worker_address")
    /\ \/ /\ Respond(503, <<"Service temporarily unavailable">>)
          /\ UNCHANGED worker_addr
       \/ /\ worker_addr' = ""
          /\ Respond(404, <<"No worker found for model">>)
       \/ /\ \E a \in Endpoints : worker_addr' = a
          /\ apc' = "a_158"
          /\ UNCHANGED aresp
    /\ UNCHANGED <<areq, api_key, result, models_json>>
    /\ StreamLocal
    /\ ApiLocal

\* lines 158-212: the streaming branch returns the response whose body is
\* the generator generate().
a_158 ==
    /\ apc = "a_158"
    /\ areq.stream
    /\ StartGenerate
    /\ Respond(200, <<"StreamingResponse">>)
    /\ UNCHANGED <<areq, api_key, calls, worker_addr, result, models_json>>
    /\ ApiLocal

\* Mutant of a_217: an error code counts only when a text comes with it.
a_217_needs_text ==
    /\ apc = "a_158"
    /\ ~areq.stream
    /\ calls' = Append(calls, "worker/worker_generate")
    /\ \/ /\ Respond(503, <<"Service temporarily unavailable">>)
          /\ UNCHANGED result
       \/ \E r \in WorkerResults :
            /\ result' = r
            /\ IF r.error_code # 0 /\ r.text # <<>>
               THEN Respond(500, r.text)
               ELSE Respond(200, r.text)
    /\ UNCHANGED <<areq, api_key, worker_addr, models_json>>
    /\ StreamLocal
    /\ ApiLocal

\* Mutant of a_217: the handler's except clause catches its own
\* HTTPException too.
a_217_catches_all ==
    /\ apc = "a_158"
    /\ ~areq.stream
    /\ calls' = Append(calls, "worker/worker_generate")
    /\ \/ /\ Respond(503, <<"Service temporarily unavailable">>)
          /\ UNCHANGED result
       \/ \E r \in WorkerResults :
            /\ result' = r
            /\ IF r.error_code # 0
               THEN Respond(503, <<"Service temporarily unavailable">>)
               ELSE Respond(200, r.text)
    /\ UNCHANGED <<areq, api_key, worker_addr, models_json>>
    /\ StreamLocal
    /\ ApiLocal

\* lines 214-250, the non-streaming branch: a RequestException of the call
\* (timeout, refused, HTTP error status) is a 503; an answer with an error
\* code is a 500 with the answer's text, which line 248 does not catch; any
\* other answer is the completion.
a_217 ==
    /\ apc = "a_158"
    /\ ~areq.stream
    /\ calls' = Append(calls, "worker/worker_generate")
    /\ \/ /\ Respond(503, <<"Service temporarily unavailable">>)
          /\ UNCHANGED result
       \/ \E r \in WorkerResults :
            /\ result' = r
            /\ IF r.error_code # 0
               THEN Respond(500, r.text)
               ELSE Respond(200, r.text)
    /\ UNCHANGED <<areq, api_key, worker_addr, models_json>>
    /\ StreamLocal
    /\ ApiLocal

\* list_models, lines 97-117: the answer is one entry for each x of
\* "for model in models", and models is the decoded JSON object.
a_99 ==
    /\ apc = "a_99"
    /\ calls' = Append(calls, "controller/list_models")
    /\ \/ /\ Respond(503, <<"Service temporarily unavailable">>)
          /\ UNCHANGED models_json
       \/ \E m \in ListModelsReplies :
            /\ models_json' = m
            /\ Respond(200, Keys(DOMAIN m))
    /\ UNCHANGED <<areq, api_key, worker_addr, result>>
    /\ StreamLocal
    /\ ApiLocal

ApiNext ==
    \/ create_app
    \/ v1_chat_completions
    \/ v1_models
    \/ a_51
    \/ a_127
    \/ a_158
    \/ a_217
    \/ a_99
    \/ g_162
    \/ gs_79
    \/ g_175
    \/ g_198
    \/ g_210

SpecApi == Init /\ [][ApiNext]_vars

\* ============================================ the chat page's generation
\* gradio_web_server.py: add_text_fn (144-153) followed by bot_response_fn
\* (191-250), as the submit and click events chain them (lines 282-288).
\* bot_response_fn is a generator: each action runs it up to its next yield.
\* The worker keeps its contract: every line of its stream decodes to a
\* chunk, so the handler of lines 187-189 is not reached.
ChatLocal ==
    UNCHANGED <<now, registry_vars, gateway_vars, api_vars, input_textbox>>

\* conv.update_last_message(text): messages[-1][1] = text
update_last_message(text) ==
    messages' = [messages EXCEPT ![Len(messages)].content = text]

LastContent(m) == IF m = <<>> THEN NoneText ELSE m[Len(m)].content

\* yield state_obj, state_obj.to_gradio_chatbot()[, enable_text, enable_btn]
Yield(final) == ui' = Append(ui, Update(LastContent(messages'), final))

\* lines 144-153, then the chained bot_response_fn starts.
\* The chained bot_response_fn starts with fresh locals and no request out.
StartRun ==
    /\ cpc \in {"idle", "end", "raised"}
    /\ cpc' = "b_197"
    /\ ui' = <<>>
    /\ full_resp_text' = <<>>
    /\ data_chunk' = NoChunk
    /\ conn' = "none"
    /\ pulled' = 0
    /\ UNCHANGED <<now, registry_vars, gateway_vars, api_vars>>

\* Mutant of add_text_fn: blank input is appended like any other.
add_text_fn_appends_blank ==
    /\ \E text \in UserTexts :
        /\ input_textbox' = text
        /\ Len(messages) < 2 * MaxTurns
        /\ messages' = messages \o <<Message("user", strip(text)),
                                     Message("assistant", NoneText)>>
        /\ skip_next' = FALSE
    /\ StartRun

add_text_fn ==
    /\ \E text \in UserTexts :
        /\ input_textbox' = text
        /\ IF text = <<>> \/ Len(strip(text)) = 0
           THEN /\ skip_next' = TRUE
                /\ UNCHANGED messages
           ELSE /\ Len(messages) < 2 * MaxTurns
                /\ messages' = messages \o <<Message("user", strip(text)),
                                             Message("assistant", NoneText)>>
                /\ skip_next' = FALSE
    /\ StartRun

\* lines 137-142, then the chained bot_response_fn starts (lines 290-292):
\* a last message of the assistant is popped.  The event has no text.
regenerate_fn ==
    /\ messages' = IF messages # <<>> /\ messages[Len(messages)].role = "assistant"
                   THEN SubSeq(messages, 1, Len(messages) - 1)
                   ELSE messages
    /\ input_textbox' = NoneText
    /\ UNCHANGED skip_next
    /\ StartRun

\* lines 132-135: a new State replaces the session's and the page shows its
\* empty conversation; no generation follows (line 294).
clear_history_fn ==
    /\ cpc \in {"idle", "end", "raised"}
    /\ cpc' = "idle"
    /\ messages' = <<>>
    /\ skip_next' = FALSE
    /\ ui' = <<>>
    /\ UNCHANGED <<full_resp_text, data_chunk, conn, pulled>>
    /\ ChatLocal

\* update_last_message(text) and a yield, then on to next; on an empty
\* conversation messages[-1] raises IndexError and the generator is over.
UpdateAndYield(text, final, next) ==
    IF messages = <<>>
    THEN /\ cpc' = "raised"
         /\ UNCHANGED <<messages, ui>>
    ELSE /\ update_last_message(text)
         /\ Yield(final)
         /\ cpc' = next

\* lines 197-200: a skipped run
b_197 ==
    /\ cpc = "b_197"
    /\ IF skip_next
       THEN /\ skip_next' = FALSE
            /\ UNCHANGED messages
            /\ Yield(TRUE)
            /\ cpc' = "end"
       ELSE /\ cpc' = "b_202"
            /\ UNCHANGED <<skip_next, messages, ui>>
    /\ UNCHANGED <<full_resp_text, data_chunk, conn, pulled>>
    /\ ChatLocal

\* lines 202-206: controller_url is a global set at start-up, or not.
b_202 ==
    /\ cpc = "b_202"
    /\ \/ UpdateAndYield(<<"SERVER_ERROR_MSG",
                           " (System Error: Controller not configured)">>,
                         TRUE, "end")
       \/ /\ cpc' = "b_210"
          /\ UNCHANGED <<messages, ui>>
    /\ UNCHANGED <<skip_next, full_resp_text, data_chunk, conn, pulled>>
    /\ ChatLocal

\* lines 208-223: the controller cannot be reached, or names no worker, or
\* names one.
b_210 ==
    /\ cpc = "b_210"
    /\ \/ UpdateAndYield(<<"SERVER_ERROR_MSG", " (Controller/Worker Error)">>,
                         TRUE, "end")
       \/ UpdateAndYield(<<"SERVER_ERROR_MSG", " (No worker)">>, TRUE, "end")
       \/ /\ cpc' = "b_226"
          /\ UNCHANGED <<messages, ui>>
    /\ UNCHANGED <<skip_next, full_resp_text, data_chunk, conn, pulled>>
    /\ ChatLocal

\* Mutant of b_226: the run goes to the stream without a placeholder.
b_226_silent ==
    /\ cpc = "b_226"
    /\ cpc' = "b_231"
    /\ UNCHANGED <<messages, ui>>
    /\ UNCHANGED <<skip_next, full_resp_text, data_chunk, conn, pulled>>
    /\ ChatLocal

\* lines 226-227: the placeholder; line 230 follows when the generator resumes.
b_226 ==
    /\ cpc = "b_226"
    /\ UpdateAndYield(<<Marker>>, FALSE, "b_231")
    /\ full_resp_text' = <<>>
    /\ UNCHANGED <<skip_next, data_chunk, conn, pulled>>
    /\ ChatLocal

\* Mutant of ChatLoopBody: on an error chunk the run ends on what it has.
ChatLoopBody_truncates(d) ==
    IF d.error_code # 0
    THEN /\ UNCHANGED <<messages, full_resp_text>>
         /\ Yield(TRUE)
         /\ cpc' = "end"
    ELSE /\ full_resp_text' = full_resp_text \o d.text
         /\ update_last_message(full_resp_text' \o <<Marker>>)
         /\ Yield(FALSE)
         /\ cpc' = "b_231"

\* lines 235-246, the body of the loop for the chunk d: an error code ends
\* the run on the chunk's text; otherwise the chunk's text is added to
\* full_resp_text and shown with the marker.
ChatLoopBody(d) ==
    IF d.error_code # 0
    THEN /\ update_last_message(d.text)
         /\ Yield(TRUE)
         /\ cpc' = "end"
         /\ UNCHANGED full_resp_text
    ELSE /\ full_resp_text' = full_resp_text \o d.text
         /\ update_last_message(full_resp_text' \o <<Marker>>)
         /\ Yield(FALSE)
         /\ cpc' = "b_231"

\* model_worker_stream_iter_fn, lines 176-180: the first pull posts the
\* request; a RequestException is caught at line 184 and becomes the
\* generator's only chunk.
ms_177 ==
    /\ cpc = "b_231"
    /\ conn = "none"
    /\ \/ /\ conn' = "open"
          /\ UNCHANGED <<cpc, messages, full_resp_text, data_chunk, ui>>
       \/ /\ conn' = "failed"
          /\ data_chunk' = ChatErrorChunk
          /\ ChatLoopBody(ChatErrorChunk)
    /\ UNCHANGED <<skip_next, pulled>>
    /\ ChatLocal

\* line 231 with model_worker_stream_iter_fn's lines 181-186: the next chunk
\* of the worker, the end of its stream, or a break of the connection.
Pull(more) ==
    /\ cpc = "b_231"
    /\ conn = "open"
    /\ \/ /\ more
          /\ \E c \in WorkerChunks :
                /\ data_chunk' = c
                /\ ChatLoopBody(c)
          /\ pulled' = pulled + 1
          /\ UNCHANGED conn
       \/ /\ conn' = "closed"
          /\ cpc' = "b_248"
          /\ UNCHANGED <<messages, full_resp_text, data_chunk, ui, pulled>>
       \/ /\ conn' = "broken"
          /\ data_chunk' = ChatErrorChunk
          /\ ChatLoopBody(ChatErrorChunk)
          /\ UNCHANGED pulled
    /\ UNCHANGED skip_next
    /\ ChatLocal

\* A worker whose stream has at most MaxChunks chunks.
b_231 == Pull(pulled < MaxChunks)

\* A worker whose stream has at most one chunk.
b_231_short == Pull(pulled = 0)

\* Mutant of b_248: the last update keeps the marker.
b_248_keeps_marker ==
    /\ cpc = "b_248"
    /\ update_last_message(full_resp_text \o <<Marker>>)
    /\ Yield(TRUE)
    /\ cpc' = "end"
    /\ UNCHANGED <<skip_next, full_resp_text, data_chunk, conn, pulled>>
    /\ ChatLocal

\* lines 248-250: the stream has ended; the last update
b_248 ==
    /\ cpc = "b_248"
    /\ update_last_message(full_resp_text)
    /\ Yield(TRUE)
    /\ cpc' = "end"
    /\ UNCHANGED <<skip_next, full_resp_text, data_chunk, conn, pulled>>
    /\ ChatLocal

ChatNext ==
    \/ add_text_fn
    \/ b_197
    \/ b_202
    \/ b_210
    \/ b_226
    \/ ms_177
    \/ b_231
    \/ b_248

SpecChat == Init /\ [][ChatNext]_vars

\* The session with all its buttons (lines 282-294): send, regenerate and
\* clear, each generation against a worker with a short stream.
SessionNext ==
    \/ add_text_fn
    \/ regenerate_fn
    \/ clear_history_fn
    \/ b_197
    \/ b_202
    \/ b_210
    \/ b_226
    \/ ms_177
    \/ b_231_short
    \/ b_248

SpecSession == Init /\ [][SessionNext]_vars

\* ================================================================ claims
HandlerStep == hpc # "done" /\ hpc' # hpc

SweepStep == <<spc, wake, to_delete>>' # <<spc, wake, to_delete>>

Finished(op) == hpc = "done" /\ req.op = op

\* C1: in every reachable state, whatever the interleaving of the handlers
\* with the sweep thread, the registry holds at most one WorkerRecord.
C1_AtMostOneWorker == \A a, b \in DOMAIN worker_info : a = b

\* C1 witness: a record is held while a registration of the other endpoint
\* and a sweep are both under way.
C1_Witness ==
    /\ DOMAIN worker_info # {}
    /\ req.op = "register_worker"
    /\ hpc = "reg_89"
    /\ req.worker_name \notin DOMAIN worker_info
    /\ spc = "sweep_124"

\* C2: a register call for endpoint B whose first read of the registry finds
\* a record held for another endpoint returns failure, with or without a
\* status, and B is not held as a result.
C2_OtherEndpointRefused ==
    (/\ Finished("register_worker")
     /\ DOMAIN seen # {}
     /\ req.worker_name \notin DOMAIN seen)
    => (ret = False /\ req.worker_name \notin DOMAIN worker_info)

\* C2 witness: B was refused with a status supplied while A is still held.
C2_Witness ==
    /\ Finished("register_worker")
    /\ DOMAIN seen # {}
    /\ req.worker_name \notin DOMAIN seen
    /\ ~Missing(req.worker_status)
    /\ DOMAIN worker_info = DOMAIN seen
    /\ ret = False

\* C3: a register call for endpoint A whose first read finds A held, and
\* whose status is supplied or successfully probed, returns success, and the
\* record held when it returns carries the call's values and the time of the
\* call.
C3_ReRegistrationOverwrites ==
    [][(/\ HandlerStep
        /\ req.op = "register_worker"
        /\ hpc' = "done"
        /\ req.worker_name \in DOMAIN seen'
        /\ ~Missing(req'.worker_status))
       => (/\ ret' = True
           /\ req.worker_name \in DOMAIN worker_info'
           /\ worker_info'[req.worker_name] =
                NewRecord(req'.worker_status, req.check_heart_beat, wtime,
                          req.multimodal))]_vars

\* C4: a register call changes the registry only by storing its record, and
\* a register call that returns failure has stored none: it has created,
\* removed and overwritten nothing.
C4_FailedRegisterChangesNothing ==
    [][(HandlerStep /\ req.op = "register_worker")
       => (/\ worker_info' # worker_info => wtime' # -1
           /\ (hpc' = "done" /\ ret' = False) => wtime' = -1)]_vars

\* C4 witness: a re-registration whose probe failed has returned failure and
\* the record it found is still held.
C4_Witness ==
    /\ Finished("register_worker")
    /\ ret = False
    /\ req.probe = "fail"
    /\ DOMAIN seen # {}
    /\ worker_info = seen

\* C5: the sweep thread removes a record only if, when it is removed, its
\* checkHeartbeat is true and its last heartbeat is older than the
\* expiration window, and when a sweep ends no record it found stale is held.
C5_SweepRemovesOnlyStale ==
    [][(SweepStep /\ spc # "dead")
       => (/\ \A k \in (DOMAIN worker_info) \ (DOMAIN worker_info') :
                IsStale(worker_info[k], Expire(now))
           /\ (spc' = "sleep" => to_delete \cap (DOMAIN worker_info') = {}))]_vars

\* C6: with the sweeps exactly one expiration window apart, a held record
\* with checkHeartbeat true is never older than one expiration window.
C6_RemovedWithinOneWindow ==
    \A k \in DOMAIN worker_info :
        worker_info[k].check_heart_beat
        => now - worker_info[k].last_heart_beat <= CONTROLLER_HEART_BEAT_EXPIRATION

\* The address get_worker_address owes a caller whose first read saw d.
Resolve(d, model) ==
    IF DOMAIN d # {} /\ model \in Range(d[FirstKey(d)].model_names)
    THEN FirstKey(d)
    ELSE ""

\* C7: get_worker_address returns the held endpoint exactly when a record is
\* held and lists the model, the empty string otherwise, and never changes
\* the registry.
C7_GetWorkerAddress ==
    [][(HandlerStep /\ req.op = "get_worker_address")
       => (/\ worker_info' = worker_info
           /\ (hpc' = "done" => ret' = Resolve(seen', req.model)))]_vars

\* C8: receive_heart_beat on the held endpoint sets queueLength and
\* lastHeartbeat, leaves the other fields alone and returns true; on an
\* endpoint that is not held it returns false and changes nothing.
C8_ReceiveHeartBeat ==
    [][(HandlerStep /\ req.op = "receive_heart_beat" /\ hpc' = "done")
       => IF req.worker_name \in DOMAIN seen'
          THEN /\ ret' = True
               /\ worker_info' =
                    [seen' EXCEPT ![req.worker_name].queue_length = req.queue_length,
                                  ![req.worker_name].last_heart_beat = now]
          ELSE /\ ret' = False
               /\ worker_info' = worker_info]_vars

\* C9: when a refresh whose probe failed ends, the probed endpoint is not
\* held; a refresh whose probe succeeded, or that found the registry empty,
\* changes nothing.
C9_RefreshRemovesOnProbeFailure ==
    [][(HandlerStep /\ req.op = "refresh_all_workers")
       => (/\ (hpc' = "done" /\ req'.probe = "fail")
                => req.worker_name \notin DOMAIN worker_info'
           /\ req'.probe # "fail" => worker_info' = worker_info)]_vars

\* C9 witness: a refresh found a record, its probe failed, and it has
\* returned with the record gone.
C9_Witness ==
    /\ Finished("refresh_all_workers")
    /\ req.probe = "fail"
    /\ ret = None
    /\ DOMAIN seen # {}
    /\ DOMAIN worker_info = {}

\* The handler has read the registry and has not finished its method.
HandlerInside == hpc \notin {"done", "reg_69", "hb_170", "gwa_160", "rf_128"}

\* The sweep has found a stale record and has not removed it yet.
SweepInside == spc \in {"sweep_123", "sweep_124"}

\* C10: the sweep thread takes no step between the first registry read and
\* the end of a handler's method, and no handler takes a step between the
\* sweep's staleness check and its deletion.
C10_MutualExclusion ==
    [][/\ HandlerInside => ~SweepStep
       /\ SweepInside => ~HandlerStep]_vars

\* C11: a heartbeat whose worker is removed while it runs still completes
\* with true or false, never with an error, and when it returns no record
\* is held for an endpoint that a removal deleted after the heartbeat began.
C11_HeartBeatSurvivesRemoval ==
    [][(HandlerStep /\ req.op = "receive_heart_beat" /\ hpc' = "done")
       => (/\ ret' \in {True, False}
           /\ req.worker_name \notin DOMAIN worker_info
                => req.worker_name \notin DOMAIN worker_info')]_vars

\* ------------------------------------------------- the gateway's stream
IsPrefix(s, t) == Len(s) <= Len(t) /\ SubSeq(t, 1, Len(s)) = s

IsEvent(e) == "delta" \in DOMAIN e
IsRoleEvent(e) == IsEvent(e) /\ e.delta = DeltaRole /\ e.finish_reason = None
IsContentEvent(e) ==
    IsEvent(e) /\ "content" \in DOMAIN e.delta /\ e.finish_reason = None
IsTerminalEvent(e) ==
    IsEvent(e) /\ e.delta = DeltaEmpty /\ e.finish_reason # None
IsSentinel(e) == e = Sentinel

\* C12: whatever the worker's stream does, what the gateway has sent is a
\* role event first and only first, then content events, then at most one
\* terminal event with an empty delta and a finish reason, then at most the
\* sentinel, with nothing after it; when the generator has ended both the
\* terminal event and the sentinel have been sent.
C12_EventOrder ==
    LET n == Len(out) IN
    /\ \A i \in 1..n :
        /\ IsRoleEvent(out[i]) <=> i = 1
        /\ i > 1 => \/ IsContentEvent(out[i])
                    \/ IsTerminalEvent(out[i])
                    \/ IsSentinel(out[i])
        /\ IsTerminalEvent(out[i])
            => /\ \A j \in 1..(i-1) : ~IsTerminalEvent(out[j])
               /\ i = n \/ (i = n - 1 /\ IsSentinel(out[n]))
        /\ IsSentinel(out[i]) => i = n /\ IsTerminalEvent(out[n-1])
    /\ gpc = "g_210" => n >= 2 /\ IsTerminalEvent(out[n])
    /\ gpc = "end" => n >= 3 /\ IsSentinel(out[n])

\* C12 witness: a stream cut by a break of the connection after one chunk
\* has ended with role event, one content event, terminal event, sentinel.
C12_Witness ==
    /\ gpc = "end"
    /\ conn = "broken"
    /\ pulled = 1
    /\ Len(out) = 4
    /\ IsContentEvent(out[2])

\* C13: when the worker's chunks are cumulative, a chunk that adds text
\* produces one content event carrying only the added text, and a chunk that
\* adds none produces no event.
C13_IncrementalDelta ==
    [][(gpc = "g_175" /\ pulled' = pulled + 1 /\ data'.error_code = 0
            /\ IsPrefix(data.text, data'.text))
       => IF data'.text = data.text
          THEN out' = out
          ELSE /\ Len(out') = Len(out) + 1
               /\ out'[Len(out')].delta =
                    DeltaContent(SubSeq(data'.text, Len(data.text) + 1,
                                        Len(data'.text)))]_vars

\* The loop of generate() has been left on a chunk with an error code.
Failed == gpc \in {"g_198", "g_210", "end"} /\ data.error_code # 0

\* C14: the step that pulls a chunk with a nonzero error code, or meets a
\* broken connection, sends nothing and leaves the loop; from then on no
\* chunk is pulled, what was sent stays, and the response ends with a
\* terminal event whose finish reason is "stop" and the sentinel.
C14_FailureEndsStream ==
    [][/\ (gpc = "g_175" /\ data'.error_code # 0 /\ data' # data)
            => out' = out /\ gpc' = "g_198"
       /\ (Failed /\ gpc' # "g_162")
            => /\ pulled' = pulled
               /\ IsPrefix(out, out')
               /\ gpc' = "end"
                    => /\ IsTerminalEvent(out'[Len(out') - 1])
                       /\ out'[Len(out') - 1].finish_reason = "stop"
                       /\ IsSentinel(out'[Len(out')])]_vars

\* C14 witness: after two chunks the worker sent an error chunk, and the
\* response has ended with the two content events kept.
C14_Witness ==
    /\ gpc = "end"
    /\ data.error_code # 0
    /\ conn = "open"
    /\ pulled = 3
    /\ Len(out) = 5
    /\ IsContentEvent(out[2]) /\ IsContentEvent(out[3])

\* C15: a response during which the worker reported a nonzero error code
\* shows the client the error text, in an event that does not look like
\* success.
C15_ErrorVisible ==
    (gpc = "end" /\ data.error_code # 0 /\ conn = "open")
        => \E i \in 1..Len(out) :
              /\ IsEvent(out[i])
              /\ out[i].delta = DeltaContent(data.text)

\* C16: all events of one response carry the same identifier.
C16_OneIdentifier ==
    \A i, j \in 1..Len(out) :
        (IsEvent(out[i]) /\ IsEvent(out[j])) => out[i].id = out[j].id

\* ------------------------------------------------ the chat page's updates
HasMarker(t) == \E i \in 1..Len(t) : t[i] = Marker

\* The run went as far as asking a worker for its stream.
Dispatched == cpc \in {"b_231", "b_248"} \/ (cpc = "end" /\ conn # "none")

\* C17: in a run of the generation a final update is sent exactly when the
\* run ends, it is the last update, there is no other, it carries no
\* marker, and it shows the assistant message as the run left it.
C17_FinalOnce ==
    LET n == Len(ui) IN
    /\ \A i \in 1..n :
        /\ ui[i].final <=> (i = n /\ cpc = "end")
        /\ ui[i].final => ~HasMarker(ui[i].content)
    /\ cpc = "end" => /\ n >= 1
                      /\ ui[n].content = LastContent(messages)

\* C17 witness: a run whose stream broke after one chunk has ended on its
\* third update.
C17_Witness ==
    /\ cpc = "end"
    /\ Dispatched
    /\ conn = "broken"
    /\ pulled = 1
    /\ Len(ui) = 3
    /\ ui[3].final

\* C18: a run that ends on an error chunk or a broken connection after one
\* or more successful chunks shows the error text, not the text received so
\* far and no marker.
C18_ErrorReplacesPartial ==
    (cpc = "end" /\ data_chunk.error_code # 0 /\ Len(ui) >= 3)
        => /\ ui[Len(ui)].content = data_chunk.text
           /\ LastContent(messages) = data_chunk.text
           /\ ~HasMarker(LastContent(messages))
           /\ data_chunk.text # full_resp_text

\* C18 witness: the worker sent "Hi" and then an error chunk.
C18_Witness ==
    /\ cpc = "end"
    /\ conn = "open"
    /\ data_chunk.error_code # 0
    /\ full_resp_text = <<"Hi">>
    /\ ui[2].content = <<"Hi", Marker>>
    /\ LastContent(messages) = WorkerErrorText

\* C19: when the worker's chunks are cumulative, the update after a
\* successful chunk shows that chunk's text followed by the marker, and the
\* final update after the end of the stream shows the last chunk's text.
C19_CumulativeText ==
    [][/\ (cpc = "b_231" /\ pulled' = pulled + 1 /\ data_chunk'.error_code = 0
                /\ IsPrefix(data_chunk.text, data_chunk'.text))
            => ui'[Len(ui')].content = data_chunk'.text \o <<Marker>>
       /\ (cpc = "b_248" /\ cpc' = "end"
                /\ ui[Len(ui)].content = data_chunk.text \o <<Marker>>)
            => ui'[Len(ui')].content = data_chunk.text]_vars

\* C20: a run that is dispatched to a worker has sent the placeholder, the
\* marker alone, as its first update and before any chunk was pulled, and
\* every later update comes from a chunk or from the end of the stream.
C20_OnePlaceholder ==
    /\ Dispatched
        => /\ Len(ui) >= 1
           /\ ui[1] = Update(<<Marker>>, FALSE)
           /\ Len(ui) = 1 + pulled
                          + (IF cpc = "end" /\ conn # "open" THEN 1 ELSE 0)
    /\ cpc = "b_226" => ui = <<>> /\ pulled = 0 /\ conn = "none"

\* C20 witness: the placeholder is out and no chunk has been pulled.
C20_Witness ==
    /\ cpc = "b_231"
    /\ conn = "open"
    /\ pulled = 0
    /\ ui = <<Update(<<Marker>>, FALSE)>>

\* ------------------------------------------------------------ the session
\* C21: the roles in messages alternate, beginning with the user: no two
\* adjacent entries have the same role.
C21_RolesAlternate ==
    /\ messages # <<>> => messages[1].role = "user"
    /\ \A i \in 1..(Len(messages) - 1) : messages[i].role # messages[i+1].role

\* A generation is active: bot_response_fn is past its skip test and has
\* not ended.
GenerationActive == cpc \in {"b_202", "b_210", "b_226", "b_231", "b_248"}

\* C22: while a generation is active on a conversation that has messages,
\* the last entry is the assistant's, and a step of the generation changes
\* no other entry: every user message keeps its content.
C22_WritesOnlyAssistantEntry ==
    [][(GenerationActive /\ messages # <<>>)
       => /\ messages[Len(messages)].role = "assistant"
          /\ Len(messages') = Len(messages)
          /\ \A i \in 1..Len(messages) :
                messages[i].role = "user" => messages'[i] = messages[i]]_vars

\* C23: add_text_fn with an empty or blank text appends nothing and sets
\* skip_next, and with any other text appends the stripped text and a
\* pending assistant entry and clears skip_next; the run that follows a set
\* skip_next ends at once, with messages unchanged, skip_next cleared and no
\* request to the controller or to a worker, and a run with skip_next clear
\* goes on to generate.
C23_BlankInputSkips ==
    [][/\ (cpc # "b_197" /\ cpc' = "b_197" /\ input_textbox' # NoneText)
            => IF strip(input_textbox') = <<>>
               THEN skip_next' /\ messages' = messages
               ELSE /\ ~skip_next'
                    /\ messages' = messages \o
                         <<Message("user", strip(input_textbox')),
                           Message("assistant", NoneText)>>
       /\ (cpc = "b_197" /\ cpc' # cpc)
            => IF skip_next
               THEN /\ cpc' = "end"
                    /\ messages' = messages
                    /\ ~skip_next'
                    /\ conn' = "none" /\ pulled' = 0
               ELSE cpc' = "b_202"
       /\ cpc \in {"b_202", "b_210", "b_226", "b_231", "b_248"} => ~skip_next
      ]_vars

\* C23 witness: a run after a blank input has ended: nothing was appended,
\* the flag is clear again and no request went out.
C23_Witness ==
    /\ cpc = "end"
    /\ input_textbox = <<" ">>
    /\ messages = <<>>
    /\ ~skip_next
    /\ conn = "none"
    /\ Len(ui) = 1

\* ------------------------------------------------ the gateway's answers
\* A non-streaming completion has got an answer from its call to the worker.
Answered(op) == apc = "done" /\ areq.op = op /\ aresp # NoResponse

HasResult == result # Unassigned

WorkerCalled ==
    \E i \in 1..Len(calls) : calls[i] = "worker/worker_generate"

\* C24: a non-streaming completion whose worker answered with a nonzero
\* error code is answered with a failure status, never with success,
\* whatever the text of the worker's answer.
C24_ErrorCodeFails ==
    (Answered("create_chat_completion") /\ ~areq.stream /\ HasResult)
        => (result.error_code # 0 => /\ aresp.status_code >= 400
                                     /\ aresp.status_code # 200)

\* C24 witness: the worker answered with an error code and no text, and the
\* client got a failure.
C24_Witness ==
    /\ Answered("create_chat_completion")
    /\ ~areq.stream
    /\ HasResult
    /\ result.error_code # 0
    /\ result.text = <<>>
    /\ aresp.status_code = 500

\* C25: in a non-streaming completion that called the worker, the answer is
\* service unavailable (503) exactly when the call itself failed, and the
\* generation failure (500) exactly when the worker answered with a nonzero
\* error code.
C25_TransportIsNotApplication ==
    (Answered("create_chat_completion") /\ ~areq.stream /\ WorkerCalled)
        => /\ aresp.status_code = 503 <=> ~HasResult
           /\ aresp.status_code = 500 <=> (HasResult /\ result.error_code # 0)

\* C25 witness: the call to the worker failed and the client got a 503.
C25_Witness ==
    /\ Answered("create_chat_completion")
    /\ ~areq.stream
    /\ WorkerCalled
    /\ ~HasResult
    /\ aresp.status_code = 503

\* C26: when the controller names no worker the gateway answers service
\* unavailable (503), and no request has gone to a worker.
C26_NoWorkerUnavailable ==
    (apc = "done" /\ worker_addr = "")
        => /\ aresp.status_code = 503
           /\ ~WorkerCalled
           /\ conn = "none"

\* C27: with a key configured, a request without the key's token is
\* answered 401 with no request sent to the controller or a worker; with no
\* key configured every request passes; and no request is ever sent for a
\* request that does not pass.
C27_KeyCheckedFirst ==
    [][/\ (apc = "a_51" /\ apc' # apc)
            => IF api_key # None /\ areq.credentials # api_key
               THEN /\ apc' = "done"
                    /\ aresp'.status_code = 401
                    /\ calls' = <<>>
                    /\ UNCHANGED <<gpc, conn>>
               ELSE /\ apc' \in {"a_99", "a_127"}
                    /\ aresp' = NoResponse
       /\ calls' # <<>>
            => (api_key' = None \/ areq'.credentials = api_key')]_vars

\* C27 witness: a key is configured, the request carried no token, and it
\* was answered 401 with nothing sent.
C27_Witness ==
    /\ apc = "done"
    /\ api_key = "secret"
    /\ areq.credentials = None
    /\ aresp.status_code = 401
    /\ calls = <<>>

\* C30: the model listing has one entry for each model name in the
\* controller's answer, with the name as its id, and none when the answer
\* lists no model.
C30_ModelListing ==
    (Answered("list_models") /\ models_json # Unassigned)
        => aresp.body = models_json.models

\* C28: once the client of a streamed response has gone, no chunk is pulled
\* from the worker and the streaming request to the worker is not open.
C28_DisconnectReleases ==
    [][gpc = "cancelled"
       => /\ conn # "open"
          /\ gpc' = "cancelled" => pulled' = pulled /\ conn' = conn]_vars

\* C29: the record the sweep thread deletes has, when it is deleted,
\* check_heart_beat set and a last heartbeat before the expiry time: a
\* heartbeat or a registration of the endpoint that landed after the
\* sweep's check keeps it from being deleted.
C29_DeletesOnlyWhatIsStillStale ==
    [][spc = "sweep_124"
       => \A worker_name \in DOMAIN worker_info :
            worker_name \notin DOMAIN worker_info'
                => /\ worker_info[worker_name].check_heart_beat
                   /\ worker_info[worker_name].last_heart_beat < Expire(now)]_vars
====
